---- MODULE Spec2Model ----
(***************************************************************************)
(* Model of the two benchmark scripts of sandbox-api/integration-tests:    *)
(*   bench_http_lib.py          warmup, NUM_CALLS measured trials,         *)
(*                              statistics, percentiles and histogram      *)
(*   benchmark_fuzzy_search.py  per-query comparison of four scenarios     *)
(*                              with speedup ratios and averages           *)
(* Durations are naturals (milliseconds).  A quotient a / b the scripts    *)
(* compute is kept exact as the pair <<a, b>>; calculate_percentile        *)
(* returns its value times PctScale.                                       *)
(***************************************************************************)
EXTENDS Integers, Sequences, FiniteSets

VARIABLES
    prog,         \* which script was launched
    pc,           \* position of the script's main()
    i,            \* bench_http_lib: measured trials attempted so far
    times,        \* bench_http_lib: main's list `times`
    errors,       \* bench_http_lib: main's counter `errors`
    warmup_time,  \* bench_http_lib: <<>> or <<duration of the warmup trial>>
    calls,        \* bench_http_lib: run_filesystem_list calls made so far
    report,       \* bench_http_lib: <<>> or <<the statistics printed>>
    exit_status,  \* <<>> while running, <<0>> or <<1>> once the process ended
    last_call,    \* <<>> or <<the most recent trial operation's call>>
    qi,           \* benchmark_fuzzy_search: queries fully processed
    results,      \* benchmark_fuzzy_search: main's dict `results`
    cur,          \* benchmark_fuzzy_search: this query's find/grep/fuzzy/content times
    failed,       \* benchmark_fuzzy_search: <<scenario, query index>> of failed trials
    speedups,     \* benchmark_fuzzy_search: per-query speedup lines printed
    summary,      \* benchmark_fuzzy_search: <<>> or <<the summary printed>>
    divisors,     \* benchmark_fuzzy_search: every divisor a division was run with
    trace,        \* benchmark_fuzzy_search: <<query, request, outcome>> of every request of the query loop
    data,         \* input of the function under test (SpecPercentile, SpecHistogram)
    percentile,   \* percentile argument of calculate_percentile
    result        \* <<>> or <<value the function under test returned>>

vars == <<prog, pc, i, times, errors, warmup_time, calls, report, exit_status,
          last_call, qi, results, cur, failed, speedups, summary, divisors,
          trace, data, percentile, result>>

listVars == <<i, times, errors, warmup_time, calls, report>>
cmpVars == <<qi, results, cur, failed, speedups, summary, divisors, trace>>
fnVars == <<data, percentile, result>>

(***************************************************************************)
(* Bounds                                                                  *)
(***************************************************************************)
\* Stand-in for NUM_CALLS = 2000 measured trials.
NUM_CALLS == 3
\* Longest input of calculate_percentile that is enumerated.
MaxLen == 4
\* Longest input of the histogram that is enumerated.
MaxHistLen == 2

\* Durations a measured trial may take (ms).
DurationValues == {0, 4, 1000}
\* Inputs of calculate_percentile, unevenly spaced so interpolation shows.
PctValues == {0, 1, 3, 10}
\* Every bucket boundary, an interior point of each wider bucket, and a
\* value far above the last boundary.
BucketProbeValues ==
    {0, 1, 2, 3, 4, 5, 7, 10, 15, 20, 25, 30, 40, 50, 60, 75, 90, 100, 125,
     150, 175, 200, 250, 300, 400, 500, 750, 999, 1000, 1001, 5000}
Percentiles == {0, 50, 95, 99, 100}

\* What the subject system may answer to one request.
\* "malformed" is status 200 with a body that is not the expected JSON.
Responses == {"ok", "non_success_status", "transport_error", "malformed"}
Failures == Responses \ {"ok"}

(***************************************************************************)
(* Helpers                                                                 *)
(***************************************************************************)
Return(v) == [kind |-> "return", value |-> v]
Raise(e) == [kind |-> "raise", value |-> e]

RECURSIVE Sum(_)
Sum(s) == IF s = <<>> THEN 0 ELSE s[1] + Sum(Tail(s))

RECURSIVE SumSq(_)
SumSq(s) == IF s = <<>> THEN 0 ELSE s[1] * s[1] + SumSq(Tail(s))

RECURSIVE Insert(_, _)
Insert(x, s) ==
    IF s = <<>> THEN <<x>>
    ELSE IF x <= s[1] THEN <<x>> \o s
    ELSE <<s[1]>> \o Insert(x, Tail(s))

RECURSIVE sorted(_)
sorted(s) == IF s = <<>> THEN <<>> ELSE Insert(s[1], sorted(Tail(s)))

min(s) == CHOOSE x \in {s[k] : k \in 1..Len(s)} : \A k \in 1..Len(s) : x <= s[k]
max(s) == CHOOSE x \in {s[k] : k \in 1..Len(s)} : \A k \in 1..Len(s) : x >= s[k]

RECURSIVE SeqsUpTo(_, _)
SeqsUpTo(S, n) ==
    IF n = 0 THEN {<<>>}
    ELSE LET shorter == SeqsUpTo(S, n - 1)
         IN  shorter \cup {Append(s, x) : s \in shorter, x \in S}

(***************************************************************************)
(* bench_http_lib.py: the trial operation                                  *)
(***************************************************************************)
\* Raises on a transport error (requests.get) and on a non-200 status;
\* the body is never parsed, so any 200 answer returns the elapsed time.
run_filesystem_list(resp, elapsed) ==
    IF resp = "transport_error" THEN Raise("RequestException")
    ELSE IF resp = "non_success_status" THEN Raise("Exception")
    ELSE Return(elapsed)

(***************************************************************************)
(* bench_http_lib.py: calculate_percentile                                 *)
(***************************************************************************)
PctScale == 100

\* Variant: the index is taken over len instead of len - 1.
PctIndex_len(n, p) == p * n

\* index = (percentile / 100.0) * (len - 1), kept as index * PctScale
PctIndex(n, p) == p * (n - 1)
\* lower = int(index)
PctLower(n, p) == PctIndex(n, p) \div PctScale
\* upper = lower + 1
PctUpper(n, p) == PctLower(n, p) + 1
\* weight = index - lower, kept as weight * PctScale
PctWeight(n, p) == PctIndex(n, p) - PctScale * PctLower(n, p)

\* 0-based indexes of sorted_data the call reads
PctReads(n, p) ==
    IF PctUpper(n, p) >= n THEN {PctLower(n, p)}
    ELSE {PctLower(n, p), PctUpper(n, p)}

\* Variant: nearest lower rank, no interpolation.
calculate_percentile_nearest(d, p) ==
    PctScale * sorted(d)[PctLower(Len(d), p) + 1]

\* the value returned, times PctScale
calculate_percentile(d, p) ==
    LET sorted_data == sorted(d)
        n == Len(sorted_data)
        lower == PctLower(n, p)
        upper == PctUpper(n, p)
        weight == PctWeight(n, p)
    IN  IF upper >= n
        THEN PctScale * sorted_data[lower + 1]
        ELSE sorted_data[lower + 1] * (PctScale - weight)
             + sorted_data[upper + 1] * weight

(***************************************************************************)
(* bench_http_lib.py: statistics and histogram of main                     *)
(***************************************************************************)
\* statistics.median(times), times 2
median2(d) ==
    LET s == sorted(d)
        n == Len(s)
    IN  IF n % 2 = 1 THEN 2 * s[(n + 1) \div 2]
        ELSE s[n \div 2] + s[n \div 2 + 1]

\* statistics.stdev(times) if len(times) > 1 else 0, as the variance
\* <<numerator, denominator>>
stdev2(d) ==
    LET n == Len(d)
    IN  IF n > 1 THEN <<n * SumSq(d) - Sum(d) * Sum(d), n * (n - 1)>>
        ELSE <<0, 1>>

\* (min_val, max_val) of each bucket; <<>> stands for float('inf')
buckets ==
    << <<0, <<1>> >>, <<1, <<2>> >>, <<2, <<3>> >>, <<3, <<5>> >>,
       <<5, <<10>> >>, <<10, <<20>> >>, <<20, <<30>> >>, <<30, <<50>> >>,
       <<50, <<75>> >>, <<75, <<100>> >>, <<100, <<150>> >>,
       <<150, <<200>> >>, <<200, <<300>> >>, <<300, <<500>> >>,
       <<500, <<1000>> >>, <<1000, <<>> >> >>

\* Variant: the upper boundary is included (min_val <= t <= max_val).
InBucket_closed(t, b) == b[1] <= t /\ (b[2] = <<>> \/ t <= b[2][1])

\* min_val <= t < max_val
InBucket(t, b) == b[1] <= t /\ (b[2] = <<>> \/ t < b[2][1])

\* count = sum(1 for t in times if min_val <= t < max_val), per bucket
histogram(d) ==
    [b \in 1..Len(buckets) |->
        Cardinality({k \in 1..Len(d) : InBucket(d[k], buckets[b])})]

Statistics(d) ==
    [count    |-> Len(d),
     avg_time |-> <<Sum(d), Len(d)>>,
     median   |-> median2(d),
     min_time |-> min(d),
     max_time |-> max(d),
     stdev    |-> stdev2(d),
     p50      |-> calculate_percentile(d, 50),
     p95      |-> calculate_percentile(d, 95),
     p99      |-> calculate_percentile(d, 99),
     hist     |-> histogram(d)]

(***************************************************************************)
(* bench_http_lib.py: main and the __main__ handlers                       *)
(***************************************************************************)
Call(op, phase, resp, outcome) ==
    [op |-> op, phase |-> phase, resp |-> resp, outcome |-> outcome]

\* Variant: a failed warmup is ignored and the measured trials start.
AfterWarmup_ignored(r) == "loop"

\* try: warmup_time = run_filesystem_list() / except Exception: sys.exit(1)
AfterWarmup(r) == IF r.kind = "return" THEN "loop" ELSE "warmup_failed"

\* times: List[float] = [] after the warmup
TimesAtLoopStart(r) == <<>>

\* times.append(elapsed_ms) when the trial returned
TimesAfter(r) == IF r.kind = "return" THEN Append(times, r.value) ELSE times

\* except Exception as e: errors += 1
ErrorsAfter(r) == IF r.kind = "raise" THEN errors + 1 ELSE errors

\* Variant: a failing trial leaves the loop (no try/except around the trial).
AfterTrial_abort(r) == IF r.kind = "raise" THEN "error" ELSE "loop"

\* the loop goes on whatever the trial's outcome was
AfterTrial(r) == "loop"

\* Variant: the emptiness test never succeeds.
NoSuccessfulSample_never == Len(times) < 0

\* if len(times) == 0: ... sys.exit(1)
NoSuccessfulSample == Len(times) = 0

\* Variant: the handler reports the statistics of the samples recorded so far.
ReportOnInterrupt_partial ==
    IF Len(times) > 0 THEN <<Statistics(times)>> ELSE <<>>

\* what the KeyboardInterrupt handler reports of the run: nothing
ReportOnInterrupt == <<>>

InitList ==
    /\ pc = "start"
    /\ i = 0
    /\ times = <<>>
    /\ errors = 0
    /\ warmup_time = <<>>
    /\ calls = 0
    /\ report = <<>>
    /\ exit_status = <<>>
    /\ last_call = <<>>

\* if not os.path.exists(TEST_DIR): sys.exit(1)
ListCheckTargetDir ==
    /\ prog = "bench_http_lib"
    /\ pc = "start"
    /\ \E exists \in BOOLEAN :
          IF exists
          THEN pc' = "warmup" /\ UNCHANGED exit_status
          ELSE pc' = "no_target_dir" /\ exit_status' = <<1>>
    /\ UNCHANGED <<prog, listVars, last_call, cmpVars, fnVars>>

ListWarmup ==
    /\ prog = "bench_http_lib"
    /\ pc = "warmup"
    /\ \E resp \in Responses, elapsed \in DurationValues :
          LET r == run_filesystem_list(resp, elapsed)
          IN  /\ last_call' = <<Call("run_filesystem_list", "warmup", resp, r)>>
              /\ calls' = calls + 1
              /\ pc' = AfterWarmup(r)
              /\ warmup_time' = IF r.kind = "return" THEN <<r.value>> ELSE <<>>
              /\ exit_status' = IF AfterWarmup(r) = "loop" THEN <<>> ELSE <<1>>
              /\ times' = TimesAtLoopStart(r)
    /\ UNCHANGED <<prog, i, errors, report, cmpVars, fnVars>>

\* one iteration of for i in range(NUM_CALLS)
ListMeasuredTrial ==
    /\ prog = "bench_http_lib"
    /\ pc = "loop"
    /\ i < NUM_CALLS
    /\ \E resp \in Responses, elapsed \in DurationValues :
          LET r == run_filesystem_list(resp, elapsed)
          IN  /\ last_call' = <<Call("run_filesystem_list", "measured", resp, r)>>
              /\ calls' = calls + 1
              /\ times' = TimesAfter(r)
              /\ errors' = ErrorsAfter(r)
              /\ pc' = AfterTrial(r)
              /\ exit_status' = IF AfterTrial(r) = "loop" THEN <<>> ELSE <<1>>
    /\ i' = i + 1
    /\ UNCHANGED <<prog, warmup_time, report, cmpVars, fnVars>>

\* loop over: all requests failed
ListAllFailed ==
    /\ prog = "bench_http_lib"
    /\ pc = "loop"
    /\ i = NUM_CALLS
    /\ NoSuccessfulSample
    /\ pc' = "all_failed"
    /\ exit_status' = <<1>>
    /\ UNCHANGED <<prog, listVars, last_call, cmpVars, fnVars>>

\* loop over: statistics, percentiles and distribution are computed and shown.
\* statistics.mean of an empty list raises StatisticsError, which reaches
\* except Exception: sys.exit(1).
ListComputeStatistics ==
    /\ prog = "bench_http_lib"
    /\ pc = "loop"
    /\ i = NUM_CALLS
    /\ ~NoSuccessfulSample
    /\ IF Len(times) = 0
       THEN /\ pc' = "error"
            /\ exit_status' = <<1>>
            /\ UNCHANGED report
       ELSE /\ report' = <<Statistics(times)>>
            /\ pc' = "completed"
            /\ exit_status' = <<0>>
    /\ UNCHANGED <<prog, i, times, errors, warmup_time, calls, last_call,
                   cmpVars, fnVars>>

\* except KeyboardInterrupt: print("Benchmark interrupted"); sys.exit(0)
\* main's frame, and with it `times`, is gone when the handler runs: nothing
\* is computed from it.
ListKeyboardInterrupt ==
    /\ prog = "bench_http_lib"
    /\ pc \in {"start", "warmup", "loop"}
    /\ pc' = "interrupted"
    /\ exit_status' = <<0>>
    /\ report' = ReportOnInterrupt
    /\ UNCHANGED <<prog, i, times, errors, warmup_time, calls, last_call,
                   cmpVars, fnVars>>

NextList ==
    \/ ListCheckTargetDir
    \/ ListWarmup
    \/ ListMeasuredTrial
    \/ ListAllFailed
    \/ ListComputeStatistics
    \/ ListKeyboardInterrupt

(***************************************************************************)
(* benchmark_fuzzy_search.py: the trial operations                         *)
(***************************************************************************)
\* The first two of the script's five QUERIES.
QUERIES == <<"app", "page">>

Scenarios == <<"find", "grep", "fuzzy", "content">>
ScenarioSet == {Scenarios[k] : k \in 1..Len(Scenarios)}

\* Elapsed times (ms) a trial of each scenario may take.
TrialTimes(s) == IF s \in {"find", "grep"} THEN {6} ELSE {0, 3}
\* resultCount / total of a well-formed answer.
CountValues == {2}

\* requests.post raises on a transport error; a non-200 status returns
\* (elapsed, 0); response.json() raises on a body that is not JSON.
run_find_via_api(resp, elapsed, count) ==
    IF resp = "transport_error" THEN Raise("RequestException")
    ELSE IF resp = "non_success_status" THEN Return(<<elapsed, 0>>)
    ELSE IF resp = "malformed" THEN Raise("ValueError")
    ELSE Return(<<elapsed, count>>)

run_grep_via_api(resp, elapsed, count) ==
    IF resp = "transport_error" THEN Raise("RequestException")
    ELSE IF resp = "non_success_status" THEN Return(<<elapsed, 0>>)
    ELSE IF resp = "malformed" THEN Raise("ValueError")
    ELSE Return(<<elapsed, count>>)

\* Variant: a non-200 status raises, as run_filesystem_list does.
run_fuzzy_search_api_raising(resp, elapsed, count) ==
    IF resp = "ok" THEN Return(<<elapsed, count>>) ELSE Raise("Exception")

run_fuzzy_search_api(resp, elapsed, count) ==
    IF resp = "transport_error" THEN Raise("RequestException")
    ELSE IF resp = "non_success_status" THEN Return(<<elapsed, 0>>)
    ELSE IF resp = "malformed" THEN Raise("ValueError")
    ELSE Return(<<elapsed, count>>)

\* Not defined in benchmark_fuzzy_search.py, which only calls it: the trial
\* runner of the specification, whose every failure is a returned sample
\* with result count 0.
run_content_search_api(resp, elapsed, count) ==
    IF resp = "ok" THEN Return(<<elapsed, count>>)
    ELSE Return(<<elapsed, 0>>)

RunScenario(s, resp, elapsed, count) ==
    CASE s = "find" -> run_find_via_api(resp, elapsed, count)
      [] s = "grep" -> run_grep_via_api(resp, elapsed, count)
      [] s = "fuzzy" -> run_fuzzy_search_api(resp, elapsed, count)
      [] s = "content" -> run_content_search_api(resp, elapsed, count)

OpName(s) ==
    CASE s = "find" -> "run_find_via_api"
      [] s = "grep" -> "run_grep_via_api"
      [] s = "fuzzy" -> "run_fuzzy_search_api"
      [] s = "content" -> "run_content_search_api"

(***************************************************************************)
(* benchmark_fuzzy_search.py: speedups                                     *)
(***************************************************************************)
\* A ratio that was not computed.
Undefined == <<>>

\* Variant: the ratio is computed without the guard.
speedup_unguarded(baseline_time, candidate_time) ==
    <<baseline_time, candidate_time>>

\* if fuzzy_time > 0: find_speedup = find_time / fuzzy_time
\* (and the same for grep_time / content_time)
speedup(baseline_time, candidate_time) ==
    IF candidate_time > 0 THEN <<baseline_time, candidate_time>>
    ELSE Undefined

\* avg = sum(results[s]["times"]) / len(results[s]["times"])
average(ts) == <<Sum(ts), Len(ts)>>

\* if avg_fuzzy > 0: find_speedup = avg_find / avg_fuzzy
\* (and the same for avg_grep / avg_content); an average <<sum, n>> is
\* positive when its sum is
avg_speedup(avg_baseline, avg_candidate) ==
    IF avg_candidate[1] > 0 THEN <<avg_baseline, avg_candidate>>
    ELSE Undefined

\* the divisor of a ratio that was computed
Divisor(ratio) == IF ratio = Undefined THEN {} ELSE {ratio[2]}
AvgDivisor(ratio) == IF ratio = Undefined THEN {} ELSE {ratio[2][1]}

(***************************************************************************)
(* benchmark_fuzzy_search.py: main and the __main__ handlers               *)
(***************************************************************************)
InitCompare ==
    /\ qi = 0
    /\ results = [s \in ScenarioSet |-> [times |-> <<>>, counts |-> <<>>]]
    /\ cur = [s \in ScenarioSet |-> <<>>]
    /\ failed = {}
    /\ speedups = <<>>
    /\ summary = <<>>
    /\ divisors = {}
    /\ trace = <<>>

\* Variant: grep and fuzzy search run in the other order.
NextStep_swapped(s) ==
    CASE s = "find" -> "fuzzy"
      [] s = "fuzzy" -> "grep"
      [] s = "grep" -> "content"
      [] s = "content" -> "speedups"

\* the statement that follows a scenario's trial in the loop body
NextStep(s) ==
    CASE s = "find" -> "grep"
      [] s = "grep" -> "fuzzy"
      [] s = "fuzzy" -> "content"
      [] s = "content" -> "speedups"

\* if not os.path.exists(TEST_DIR): sys.exit(1); then the file count
CmpCheckTargetDir ==
    /\ prog = "benchmark_fuzzy_search"
    /\ pc = "start"
    /\ \E exists \in BOOLEAN :
          IF exists
          THEN pc' = "find" /\ UNCHANGED exit_status
          ELSE pc' = "no_target_dir" /\ exit_status' = <<1>>
    /\ UNCHANGED <<prog, listVars, last_call, cmpVars, fnVars>>

\* x_time, x_count = run_x(query); results[x]["times"].append(x_time);
\* results[x]["counts"].append(x_count).  An exception leaves main and
\* reaches except Exception: sys.exit(1).
CmpTrial(s) ==
    /\ prog = "benchmark_fuzzy_search"
    /\ pc = s
    /\ \E resp \in Responses, elapsed \in TrialTimes(s), count \in CountValues :
          LET r == RunScenario(s, resp, elapsed, count)
          IN  /\ last_call' = <<Call(OpName(s), "measured", resp, r)>>
              /\ trace' = Append(trace, <<QUERIES[qi + 1], s, r.kind>>)
              /\ IF r.kind = "raise"
                 THEN /\ pc' = "error"
                      /\ exit_status' = <<1>>
                      /\ UNCHANGED <<results, cur, failed>>
                 ELSE /\ pc' = NextStep(s)
                      /\ results' =
                            [results EXCEPT
                                ![s].times = Append(@, r.value[1]),
                                ![s].counts = Append(@, r.value[2])]
                      /\ cur' = [cur EXCEPT ![s] = <<r.value[1]>>]
                      /\ failed' = IF resp = "ok" THEN failed
                                   ELSE failed \cup {<<s, qi + 1>>}
                      /\ UNCHANGED exit_status
    /\ UNCHANGED <<prog, listVars, qi, speedups, summary, divisors, fnVars>>

\* Calculate speedups (per query).  A division by 0 would raise
\* ZeroDivisionError, which ends the run with status 1.
CmpSpeedups ==
    /\ prog = "benchmark_fuzzy_search"
    /\ pc = "speedups"
    /\ LET find_speedup == speedup(cur["find"][1], cur["fuzzy"][1])
           grep_speedup == speedup(cur["grep"][1], cur["content"][1])
           divs == Divisor(find_speedup) \cup Divisor(grep_speedup)
       IN  /\ divisors' = divisors \cup divs
           /\ IF 0 \in divs
              THEN /\ pc' = "error"
                   /\ exit_status' = <<1>>
                   /\ UNCHANGED speedups
              ELSE /\ pc' = "top_matches"
                   /\ speedups' = Append(speedups,
                         [find_speedup |-> find_speedup,
                          grep_speedup |-> grep_speedup])
                   /\ UNCHANGED exit_status
    /\ UNCHANGED <<prog, listVars, last_call, qi, results, cur, failed,
                   summary, trace, fnVars>>

\* Show top fuzzy results: one more request; a status other than 200 is
\* skipped, a transport error or a body that cannot be read raises.
CmpTopMatches ==
    /\ prog = "benchmark_fuzzy_search"
    /\ pc = "top_matches"
    /\ \E resp \in Responses :
          IF resp \in {"transport_error", "malformed"}
          THEN /\ pc' = "error"
               /\ exit_status' = <<1>>
               /\ trace' = Append(trace, <<QUERIES[qi + 1], "top_matches", "raise">>)
               /\ UNCHANGED qi
          ELSE /\ qi' = qi + 1
               /\ pc' = IF qi + 1 < Len(QUERIES) THEN "find" ELSE "summary"
               /\ trace' = Append(trace, <<QUERIES[qi + 1], "top_matches", "return">>)
               /\ UNCHANGED exit_status
    /\ UNCHANGED <<prog, listVars, last_call, results, cur, failed, speedups,
                   summary, divisors, fnVars>>

\* Summary table, averages and average speedups.
CmpSummary ==
    /\ prog = "benchmark_fuzzy_search"
    /\ pc = "summary"
    /\ LET avg == [s \in ScenarioSet |-> average(results[s].times)]
           find_speedup == avg_speedup(avg["find"], avg["fuzzy"])
           grep_speedup == avg_speedup(avg["grep"], avg["content"])
           lens == {Len(results[s].times) : s \in ScenarioSet}
           divs == lens \cup AvgDivisor(find_speedup)
                        \cup AvgDivisor(grep_speedup)
       IN  /\ divisors' = divisors \cup divs
           /\ IF 0 \in divs
              THEN /\ pc' = "error"
                   /\ exit_status' = <<1>>
                   /\ UNCHANGED summary
              ELSE /\ pc' = "completed"
                   /\ exit_status' = <<0>>
                   /\ summary' =
                         <<[rows |-> [q \in 1..Len(QUERIES) |->
                                [s \in ScenarioSet |-> results[s].times[q]]],
                            avg |-> avg,
                            find_speedup |-> find_speedup,
                            grep_speedup |-> grep_speedup]>>
    /\ UNCHANGED <<prog, listVars, last_call, qi, results, cur, failed,
                   speedups, trace, fnVars>>

\* except KeyboardInterrupt: print("Benchmark interrupted"); sys.exit(0)
CmpKeyboardInterrupt ==
    /\ prog = "benchmark_fuzzy_search"
    /\ pc \in {"start", "speedups", "top_matches", "summary"} \cup ScenarioSet
    /\ pc' = "interrupted"
    /\ exit_status' = <<0>>
    /\ UNCHANGED <<prog, listVars, last_call, cmpVars, fnVars>>

NextCompare ==
    \/ CmpCheckTargetDir
    \/ CmpTrial("find")
    \/ CmpTrial("grep")
    \/ CmpTrial("fuzzy")
    \/ CmpTrial("content")
    \/ CmpSpeedups
    \/ CmpTopMatches
    \/ CmpSummary
    \/ CmpKeyboardInterrupt

(***************************************************************************)
(* Specifications                                                          *)
(***************************************************************************)
InitFn ==
    /\ data = <<>>
    /\ percentile = 0
    /\ result = <<>>

\* Either script is launched and runs to its end.
Init ==
    /\ prog \in {"bench_http_lib", "benchmark_fuzzy_search"}
    /\ InitList
    /\ InitCompare
    /\ InitFn

Next == NextList \/ NextCompare

Spec == Init /\ [][Next]_vars

\* calculate_percentile applied to every input up to MaxLen values; a read
\* outside sorted_data raises IndexError.
InitPercentile ==
    /\ prog = "calculate_percentile"
    /\ InitList
    /\ InitCompare
    /\ data \in SeqsUpTo(PctValues, MaxLen) \ {<<>>}
    /\ percentile \in Percentiles
    /\ result = <<>>

ApplyPercentile ==
    /\ prog = "calculate_percentile"
    /\ result = <<>>
    /\ LET reads == PctReads(Len(data), percentile)
           in_range == reads \subseteq 0..(Len(data) - 1)
       IN  result' = <<[raised |-> ~in_range,
                        value |-> IF in_range
                                  THEN calculate_percentile(data, percentile)
                                  ELSE 0,
                        reads |-> reads]>>
    /\ UNCHANGED <<prog, pc, listVars, exit_status, last_call, cmpVars,
                   data, percentile>>

SpecPercentile == InitPercentile /\ [][ApplyPercentile]_vars

\* The histogram of main applied to every input up to MaxHistLen values.
InitHistogram ==
    /\ prog = "histogram"
    /\ InitList
    /\ InitCompare
    /\ data \in SeqsUpTo(BucketProbeValues, MaxHistLen) \ {<<>>}
    /\ percentile = 0
    /\ result = <<>>

ApplyHistogram ==
    /\ prog = "histogram"
    /\ result = <<>>
    /\ result' = <<[hist |-> histogram(data)]>>
    /\ UNCHANGED <<prog, pc, listVars, exit_status, last_call, cmpVars,
                   data, percentile>>

SpecHistogram == InitHistogram /\ [][ApplyHistogram]_vars

(***************************************************************************)
(* Claims                                                                  *)
(***************************************************************************)
Terminal == {"no_target_dir", "warmup_failed", "all_failed", "completed",
             "interrupted", "error"}

LastCall == last_call[1]

\* C1: in the measured loop a failing trial never ends the session: after
\* every attempted trial the recorded durations plus the error count equal
\* the number of trials attempted, a trial that raised leaves the session
\* running, and a run that leaves the loop without an interrupt has
\* attempted exactly NUM_CALLS trials, so len(times) + errors = NUM_CALLS.
C1_TrialAccounting ==
    prog = "bench_http_lib" =>
        /\ i <= NUM_CALLS
        /\ Len(times) + errors = i
        /\ pc \in {"all_failed", "completed"} =>
              Len(times) + errors = NUM_CALLS
        /\ (last_call # <<>> /\ LastCall.phase = "measured"
                /\ LastCall.outcome.kind = "raise") =>
              /\ pc \in {"loop", "all_failed", "completed", "interrupted"}
              /\ pc = "loop" => exit_status = <<>>

C1_Witness ==
    /\ prog = "bench_http_lib"
    /\ pc = "completed"
    /\ errors > 0
    /\ LastCall.outcome.kind = "return"
    /\ Len(times) + errors = NUM_CALLS

\* C2: exactly one warmup trial runs before any measured trial; a failed
\* warmup ends the session with status 1 before any measured trial starts;
\* the warmup's outcome is in neither `times` nor `errors`.
C2_Warmup ==
    prog = "bench_http_lib" =>
        /\ pc \in {"start", "warmup"} => calls = 0 /\ i = 0
        /\ (i > 0 \/ pc = "loop") => calls = i + 1 /\ warmup_time # <<>>
        /\ (calls >= 1 /\ warmup_time = <<>>) =>
              /\ pc = "warmup_failed"
              /\ exit_status = <<1>>
              /\ calls = 1
              /\ i = 0
        /\ calls >= 1 => Len(times) + errors = calls - 1

C2_Witness ==
    /\ prog = "bench_http_lib"
    /\ pc = "warmup_failed"
    /\ LastCall.phase = "warmup"
    /\ LastCall.outcome.kind = "raise"
    /\ times = <<>>
    /\ errors = 0

TrialOperations ==
    {"run_filesystem_list", "run_find_via_api", "run_grep_via_api",
     "run_fuzzy_search_api"}

C5_AllFailed ==
    prog = "bench_http_lib" =>
        /\ report # <<>> => Len(times) > 0 /\ report[1].count = Len(times)
        /\ (i = NUM_CALLS /\ Len(times) = 0) =>
              /\ report = <<>>
              /\ pc \in {"loop", "all_failed", "interrupted"}
        /\ pc = "all_failed" =>
              /\ exit_status = <<1>>
              /\ errors = NUM_CALLS
              /\ Len(times) = 0

C5_Witness ==
    /\ prog = "bench_http_lib"
    /\ pc = "all_failed"
    /\ errors = NUM_CALLS
    /\ exit_status = <<1>>
    /\ report = <<>>

RECURSIVE SumHist(_, _)
SumHist(h, n) == IF n = 0 THEN 0 ELSE h[n] + SumHist(h, n - 1)

BucketsOf(t) == {b \in 1..Len(buckets) : InBucket(t, buckets[b])}

\* C6: with the default buckets every duration is counted in exactly one
\* bucket, so the bucket counts sum to the number of durations.
C6_HistogramPartition ==
    result # <<>> =>
        /\ \A k \in 1..Len(data) :
              /\ Cardinality(BucketsOf(data[k])) = 1
              /\ \A b \in BucketsOf(data[k]) : result[1].hist[b] >= 1
        /\ SumHist(result[1].hist, Len(buckets)) = Len(data)

C6_Witness ==
    /\ result # <<>>
    /\ data = <<1000, 5>>
    /\ result[1].hist[16] = 1
    /\ result[1].hist[15] = 0
    /\ result[1].hist[5] = 1
    /\ result[1].hist[4] = 0

\* C7: calculate_percentile(data, 0) is the minimum and
\* calculate_percentile(data, 100) the maximum of the data, and no call
\* reads outside sorted_data.
C7_PercentileEnds ==
    result # <<>> =>
        /\ ~result[1].raised
        /\ result[1].reads \subseteq 0..(Len(data) - 1)
        /\ percentile = 0 => result[1].value = PctScale * min(data)
        /\ percentile = 100 => result[1].value = PctScale * max(data)

C7_Witness ==
    /\ result # <<>>
    /\ percentile = 100
    /\ data = <<3, 10, 3>>
    /\ result[1].value = PctScale * 10
    /\ result[1].reads = {2}

\* C8: calculate_percentile(data, 50) is the median: the middle order
\* statistic for an odd length, the average of the two middle ones for an
\* even length.
C8_MedianIsP50 ==
    (result # <<>> /\ percentile = 50) =>
        2 * result[1].value = PctScale * median2(data)

C8_Witness ==
    /\ result # <<>>
    /\ percentile = 50
    /\ data = <<10, 0, 3, 1>>
    /\ result[1].value = 2 * PctScale

\* C9: a speedup ratio is computed only for a non-zero candidate duration,
\* per query and for the averages; for a candidate of 0 it is left
\* undefined, and no division by zero is performed.
C9_SpeedupGuard ==
    prog = "benchmark_fuzzy_search" =>
        /\ 0 \notin divisors
        /\ \A q \in 1..Len(speedups) :
              /\ speedups[q].find_speedup =
                    IF results["fuzzy"].times[q] = 0 THEN Undefined
                    ELSE <<results["find"].times[q], results["fuzzy"].times[q]>>
              /\ speedups[q].grep_speedup =
                    IF results["content"].times[q] = 0 THEN Undefined
                    ELSE <<results["grep"].times[q], results["content"].times[q]>>
        /\ summary # <<>> =>
              /\ summary[1].find_speedup =
                    IF Sum(results["fuzzy"].times) = 0 THEN Undefined
                    ELSE <<summary[1].avg["find"], summary[1].avg["fuzzy"]>>
              /\ summary[1].grep_speedup =
                    IF Sum(results["content"].times) = 0 THEN Undefined
                    ELSE <<summary[1].avg["grep"], summary[1].avg["content"]>>

C9_Witness ==
    /\ prog = "benchmark_fuzzy_search"
    /\ summary # <<>>
    /\ summary[1].find_speedup = Undefined
    /\ speedups[1].find_speedup = Undefined
    /\ speedups[2].grep_speedup = <<6, 3>>
    /\ summary[1].grep_speedup = << <<12, 2>>, <<3, 2>> >>

\* the times of a scenario's trials that did not fail
RECURSIVE Succeeded(_, _, _)
Succeeded(s, ts, q) ==
    IF q > Len(ts) THEN <<>>
    ELSE (IF <<s, q>> \in failed THEN <<>> ELSE <<ts[q]>>)
         \o Succeeded(s, ts, q + 1)

\* C10: the duration of a failed trial enters no derived result: the
\* query's speedup ratio is undefined when either of its two trials failed,
\* and a scenario's average is taken over its successful trials only.
C10_FailedDurationsUnused ==
    prog = "benchmark_fuzzy_search" =>
        /\ \A q \in 1..Len(speedups) :
              /\ (<<"find", q>> \in failed \/ <<"fuzzy", q>> \in failed) =>
                    speedups[q].find_speedup = Undefined
              /\ (<<"grep", q>> \in failed \/ <<"content", q>> \in failed) =>
                    speedups[q].grep_speedup = Undefined
        /\ summary # <<>> =>
              \A s \in ScenarioSet :
                  summary[1].avg[s][1] = Sum(Succeeded(s, results[s].times, 1))

\* the trial calls among the requests made, in the order they were made
TrialCalls == SelectSeq(trace, LAMBDA e : e[2] \in ScenarioSet)

Raised(calls_made) == \E k \in 1..Len(calls_made) : calls_made[k][3] = "raise"

\* Queries are taken in list order and, within a query, the scenarios run
\* once each in the order find, grep, fuzzy, content; between two queries
\* every scenario's times list is as long as the number of queries done;
\* the summary has one row per query, holding that query's four times.
C11_OrderAndRows ==
    /\ Len(TrialCalls) <= Len(QUERIES) * Len(Scenarios)
    /\ \A k \in 1..Len(TrialCalls) :
          /\ TrialCalls[k][1] = QUERIES[((k - 1) \div Len(Scenarios)) + 1]
          /\ TrialCalls[k][2] = Scenarios[((k - 1) % Len(Scenarios)) + 1]
    /\ pc \in {"find", "summary", "completed"} =>
          \A s \in ScenarioSet :
              /\ Len(results[s].times) = qi
              /\ Len(results[s].counts) = qi
    /\ pc \in {"summary", "completed"} => qi = Len(QUERIES)
    /\ summary # <<>> =>
          /\ pc = "completed"
          /\ DOMAIN summary[1].rows = 1..Len(QUERIES)
          /\ \A q \in 1..Len(QUERIES), s \in ScenarioSet :
                summary[1].rows[q][s] = results[s].times[q]

====
